---------------------------- MODULE Spec2Model ----------------------------
(***************************************************************************)
(* A model of EasyDeL's vInference engine                                  *)
(* (src/easydel/inference/vinference/vinference.py):                       *)
(*   - the plan cache (COMPILED_FUNCS, _precompiled_configs,               *)
(*     _in_compiling_process, _precompile_lock) with its two entry points  *)
(*     async_precompile (coroutines of one event loop) and precompile      *)
(*     (threads);                                                          *)
(*   - the decode step (sampling_step), the prime plan (_compiled_generate)*)
(*     and the interval plan (_compiled_interval_generate);                *)
(*   - the streaming loop of generate.                                     *)
(* Three specifications share the variables: Spec (the plan cache under    *)
(* concurrent callers), StepSpec (the plans applied to arbitrary inputs)   *)
(* and GenSpec (one generate call and its consumer).                       *)
(***************************************************************************)
EXTENDS Integers, Sequences, FiniteSets, TLC

(***************************************************************************)
(* Bounds of the model.                                                    *)
(***************************************************************************)
\* number of callers of async_precompile / precompile (one call each)
NumTasks == 3

\* the interpreter's recursion limit (sys.getrecursionlimit(), 1000 by default),
\* which ends the recursion of precompile at lines 795-799; scaled down
RecursionLimit == 2

\* the batch sizes of the requests: a single row, and more than one row
Batches == {1, 2}
\* prompt lengths 1..MaxPrompt of a generate call
MaxPrompt == 3
\* max_new_tokens in 1..MaxNewTokens, streaming_chunks in 1..MaxChunks
MaxNewTokens == 4
MaxChunks == 2
\* max_new_tokens of the inputs the plans are applied to directly (StepSpec),
\* and their prompt lengths: one token (no prime step) and more than one
StepMaxNew == 2
StepPrompts == {1, 2}

Tasks == 1..NumTasks
\* config_key = (batch_size, input_tokens_length), lines 744 and 790
\* the callers of the cache ask for two shapes
CacheKeys == {<<1, 1>>, <<1, 2>>}
NoKey == <<0, 0>>
\* the shapes (batch_size, seq_length) generate asks for, line 596-597
GenKeys == Batches \X (0..MaxPrompt)
AllKeys == CacheKeys \cup GenKeys
\* the coroutine that runs generate
GenTask == 1

\* self._uuid4 of the one engine instance (line 399)
EngineId == 1

\* the (None, None) default of get_compiled_funcs (line 331)
NoFuncs == <<0, 0>>

(***************************************************************************)
(* Arrays are functions from rows 1..B to sequences.  None is <<>>.        *)
(***************************************************************************)
None == <<>>
Rows(a) == DOMAIN a
Max(a, b) == IF a >= b THEN a ELSE b
Min(a, b) == IF a <= b THEN a ELSE b

\* the tokens the selector (inference_step_compiled) can return: the pad
\* token of most configurations, an ordinary token and the stop token
Vocab == {0, 3, 7}

\* streaming state before the first assignment of generate's `state`
NoState ==
  [current_length |-> 0, sequences |-> <<>>, running_token |-> <<>>,
   is_sequence_finished |-> <<>>, prng_key |-> 0, model_kwargs |-> <<>>,
   generated_tokens |-> 0]

AllFinished(st) ==
  \A i \in Rows(st.is_sequence_finished) : st.is_sequence_finished[i]

\* jnp.full((rows, n), v)
full(rows, n, v) == [i \in rows |-> [j \in 1..n |-> v]]

\* jnp.ones_like(a)
ones_like(a) == [i \in Rows(a) |-> [j \in 1..Len(a[i]) |-> 1]]

RECURSIVE SumTo(_, _)
SumTo(row, j) == IF j = 0 THEN 0 ELSE row[j] + SumTo(row, j - 1)

\* a.cumsum(axis=-1) - 1
cumsum_minus_one(a) ==
  [i \in Rows(a) |-> [j \in 1..Len(a[i]) |-> SumTo(a[i], j) - 1]]

\* lax.dynamic_update_slice(operand, update, (0, start)): XLA clamps the start
\* index so that the whole update lies inside the operand
dynamic_update_slice(operand, update, start) ==
  [i \in Rows(operand) |->
     LET n == Len(operand[i])
         m == Len(update[i])
         at == Max(0, Min(start, n - m))
     IN  [j \in 1..n |->
            IF j > at /\ j <= at + m THEN update[i][j - at] ELSE operand[i][j]]]

\* jrand.split(key, 2)[0]: a new key, a function of the old one
split(prng_key) == prng_key + 1

\* EDPretrainedModel.prepare_inputs_for_generation; the attention cache is
\* opaque and stands as the number of forward passes it has absorbed
prepare_inputs_for_generation(ids, max_length, mask) ==
  [past_key_values |-> 0,
   attention_mask |->
     IF mask = None THEN full(Rows(ids), max_length, 1)
     ELSE dynamic_update_slice(full(Rows(ids), max_length, 1), mask, 0),
   position_ids |->
     IF mask = None
       THEN [i \in Rows(ids) |-> [j \in 1..Len(ids[i]) |-> j - 1]]
       ELSE cumsum_minus_one(mask)]

\* EDPretrainedModel.update_inputs_for_generation
update_inputs_for_generation(model_kwargs) ==
  [model_kwargs EXCEPT
     !.past_key_values = @ + 1,
     !.position_ids =
        [i \in Rows(@) |-> <<@[i][Len(@[i])] + 1>>]]

BoolInt(b) == IF b THEN 1 ELSE 0

\* mutant: the new flags are isin(next_token, eos) alone, without the old flags
sampling_step_FlagsNotKept(st, selected, c) ==
  LET fin == st.is_sequence_finished
      next_token ==
        [i \in Rows(fin) |->
           selected[i] * (1 - BoolInt(fin[i])) + c.pad_token_id * BoolInt(fin[i])]
      column == [i \in Rows(fin) |-> <<next_token[i]>>]
  IN  [current_length |-> st.current_length + 1,
       sequences |-> dynamic_update_slice(st.sequences, column, st.current_length),
       running_token |-> column,
       is_sequence_finished |-> [i \in Rows(fin) |-> next_token[i] \in c.eos_token_id],
       prng_key |-> split(st.prng_key),
       model_kwargs |-> update_inputs_for_generation(st.model_kwargs),
       generated_tokens |-> st.generated_tokens + 1]

\* mutant: the selector's token is written for finished rows too
sampling_step_NoPadForcing(st, selected, c) ==
  LET fin == st.is_sequence_finished
      column == [i \in Rows(fin) |-> <<selected[i]>>]
  IN  [current_length |-> st.current_length + 1,
       sequences |-> dynamic_update_slice(st.sequences, column, st.current_length),
       running_token |-> column,
       is_sequence_finished |->
         [i \in Rows(fin) |-> fin[i] \/ selected[i] \in c.eos_token_id],
       prng_key |-> split(st.prng_key),
       model_kwargs |-> update_inputs_for_generation(st.model_kwargs),
       generated_tokens |-> st.generated_tokens + 1]

\* mutant: the step leaves generated_tokens as it is
sampling_step_NoCount(st, selected, c) ==
  LET fin == st.is_sequence_finished
      next_token ==
        [i \in Rows(fin) |->
           selected[i] * (1 - BoolInt(fin[i])) + c.pad_token_id * BoolInt(fin[i])]
      column == [i \in Rows(fin) |-> <<next_token[i]>>]
  IN  [current_length |-> st.current_length + 1,
       sequences |-> dynamic_update_slice(st.sequences, column, st.current_length),
       running_token |-> column,
       is_sequence_finished |->
         [i \in Rows(fin) |-> fin[i] \/ next_token[i] \in c.eos_token_id],
       prng_key |-> split(st.prng_key),
       model_kwargs |-> update_inputs_for_generation(st.model_kwargs),
       generated_tokens |-> st.generated_tokens]

\* sampling_step of _compiled_generate; `selected` is what
\* inference_step_compiled returned, one token per row
sampling_step(st, selected, c) ==
  LET fin == st.is_sequence_finished
      next_token ==
        [i \in Rows(fin) |->
           selected[i] * (1 - BoolInt(fin[i])) + c.pad_token_id * BoolInt(fin[i])]
      next_sequence_finished ==
        [i \in Rows(fin) |-> fin[i] \/ next_token[i] \in c.eos_token_id]
      column == [i \in Rows(fin) |-> <<next_token[i]>>]
  IN  [current_length |-> st.current_length + 1,
       sequences |-> dynamic_update_slice(st.sequences, column, st.current_length),
       running_token |-> column,
       is_sequence_finished |-> next_sequence_finished,
       prng_key |-> split(st.prng_key),
       model_kwargs |-> update_inputs_for_generation(st.model_kwargs),
       generated_tokens |-> st.generated_tokens + 1]

\* the state _compiled_generate builds before its step, lines 98-135
initial_state(ids, mask, c, rng) ==
  LET current_length == Len(ids[1])
      max_length == current_length + c.max_new_tokens
      mask1 == IF mask = None THEN ones_like(ids) ELSE mask
  IN  [current_length |-> current_length,
       sequences |->
         dynamic_update_slice(full(Rows(ids), max_length, c.pad_token_id), ids, 0),
       running_token |-> ids,
       is_sequence_finished |-> [i \in Rows(ids) |-> FALSE],
       prng_key |-> rng,
       model_kwargs |-> prepare_inputs_for_generation(ids, max_length, mask1),
       generated_tokens |-> 0]

\* mutant: the prime plan returns the initial state without a step
compiled_generate_NoStep(ids, mask, c, rng, selected) ==
  initial_state(ids, mask, c, rng)

\* mutant: the prime plan takes its step only for prompts of more than two tokens
compiled_generate_LongPromptsOnly(ids, mask, c, rng, selected) ==
  IF Len(ids[1]) > 2
    THEN sampling_step(initial_state(ids, mask, c, rng), selected, c)
    ELSE initial_state(ids, mask, c, rng)

\* mutant: the prime plan takes its decode step for every prompt length
compiled_generate_AlwaysSteps(ids, mask, c, rng, selected) ==
  sampling_step(initial_state(ids, mask, c, rng), selected, c)

\* _compiled_generate, the prime plan: one step if the prompt has more than
\* one token, lines 203-206
compiled_generate(ids, mask, c, rng, selected) ==
  IF Len(ids[1]) > 1
    THEN sampling_step(initial_state(ids, mask, c, rng), selected, c)
    ELSE initial_state(ids, mask, c, rng)

\* mutant: the loop condition looks at the step budget only
cond_fn_IgnoresFinished(st, t_len) == st.current_length < t_len

\* cond_fn of _compiled_interval_generate, lines 242-245
cond_fn(st, t_len) == ~(AllFinished(st) \/ st.current_length >= t_len)

\* lines 188-191 / 290-293 with update_inputs_for_generation: that function
\* assigns into the dict it is given and returns the same dict, so after the
\* step the input state's model_kwargs is the dict the new state holds
input_after_step(st, new) == [st EXCEPT !.model_kwargs = new.model_kwargs]

\* sampling_step of _compiled_interval_generate, lines 248-303, and
\* interval_sample, lines 307-308: the same step as the prime plan's
interval_sample(st, selected, c) == sampling_step(st, selected, c)

\* mutant: tlen counts from the prompt length, not from the current length
interval_tlen_FromStart(st, loop_max_tokens, start_length) ==
  start_length + loop_max_tokens

\* mutant: tlen is one short of the chunk
interval_tlen_OneShort(st, loop_max_tokens, start_length) ==
  st.current_length + loop_max_tokens - 1

\* tlen of _compiled_interval_generate, line 240
interval_tlen(st, loop_max_tokens, start_length) ==
  st.current_length + loop_max_tokens

RECURSIVE while_loop(_, _, _, _, _)
\* jax.lax.while_loop(cond_fn, interval_sample, state); toks[n] is the
\* selector's output in the n-th iteration
while_loop(st, t_len, c, toks, n) ==
  IF cond_fn(st, t_len)
    THEN while_loop(interval_sample(st, toks[n], c), t_len, c, toks, n + 1)
    ELSE st

\* _compiled_interval_generate, the interval plan
compiled_interval_generate(st, c, loop_max_tokens, start_length, toks) ==
  while_loop(st, interval_tlen(st, loop_max_tokens, start_length), c, toks, 1)

\* vInferenceConfig._loop_rows: ceil(max_new_tokens / streaming_chunks)
loop_rows(c) == (c.max_new_tokens + c.streaming_chunks - 1) \div c.streaming_chunks

\* the shape of an array: the length of every row
Shape(a) == [i \in Rows(a) |-> Len(a[i])]

\* mutant: an omitted attention_mask is replaced by zeros
default_attention_mask_Zeros(ids, mask) ==
  IF mask = None THEN [i \in Rows(ids) |-> [j \in 1..Len(ids[i]) |-> 0]] ELSE mask

\* generate, lines 603-609: attention_mask = jnp.ones_like(input_ids) if omitted
\* (after warnings.warn, which reports and returns)
default_attention_mask(ids, mask) ==
  IF mask = None THEN ones_like(ids) ELSE mask

\* generate, lines 611-612: position_ids = attention_mask.cumsum(-1) - 1 if omitted
default_position_ids(mask, pos) ==
  IF pos = None THEN cumsum_minus_one(mask) ELSE pos

\* mutant: the plan hands the caller's position_ids to the model
compiled_generate_func_UsesPositionIds(ids, mask, pos, c, rng, selected) ==
  LET st == compiled_generate(ids, mask, c, rng, selected)
      p1 == default_position_ids(default_attention_mask(ids, mask), pos)
  IN  [st EXCEPT !.model_kwargs.position_ids =
         IF st.generated_tokens = 0 THEN p1
         ELSE [i \in Rows(p1) |-> <<p1[i][Len(p1[i])] + 1>>]]

\* the compiled prime plan as generate calls it (lines 620-627), with the full
\* signature of _compiled_generate: position_ids gets its default (lines
\* 113-114), a sharding constraint (line 118) and the shape assertion (lines
\* 119-121, the guard of the callers here); the state is built from input_ids
\* and attention_mask alone (lines 123-135)
compiled_generate_func(ids, mask, pos, c, rng, selected) ==
  compiled_generate(ids, mask, c, rng, selected)

\* the seed's key, self._rng_generator.rng
InitialRng == 0

\* the prompt of length n (every row carries the same prompt)
PromptTokens == <<5, 9, 2>>
Prompt(b, n) == [i \in 1..b |-> [j \in 1..n |-> PromptTokens[((j - 1) % 3) + 1]]]

Configs(maxNew) ==
  [max_new_tokens : 1..maxNew, streaming_chunks : 1..MaxChunks,
   eos_token_id : {{7}}, pad_token_id : {0, 7}]

VARIABLES
  precompiled,    \* self._precompiled_configs
  in_compiling,   \* self._in_compiling_process
  lock_holder,    \* the task holding self._precompile_lock, 0 when it is free
  lock_waiters,   \* the FIFO of tasks suspended in _precompile_lock.acquire()
  funcs,          \* COMPILED_FUNCS, by search key
  pc,             \* each task's position in async_precompile / precompile
  key,            \* each task's config_key
  kind,           \* "async" (a coroutine) or "sync" (a thread), "none" before the call
  loop,           \* the coroutine the event loop is running, 0 between awaits
  depth,          \* each thread's recursion depth in precompile
  compiles,       \* history: per key, how many times the compile work was started
  overlap,        \* history: a call started while another call was in progress
  cfg,            \* self.generation_config
  input_ids,      \* the request: one prompt per row
  attention_mask, \* the request's attention_mask argument, None when omitted
  position_ids,   \* the request's position_ids argument, None when omitted
                  \* (the locals generate rebinds them to are local_attention_mask
                  \* and local_position_ids)
  state,          \* generate's local `state` (a SampleState), NoState while unbound
  tlen,           \* the running interval plan's tlen, line 240
  sel_hist,       \* history: the selector's output of every decode step taken
  g_pc,           \* the position of the generate call / of the plan under test
  g_iter,         \* the index of generate's `for _ in range(_loop_rows)`
  yielded,        \* the snapshots yielded to the consumer, in order
  g_error,        \* the exception the consumer received, "none" if none
  queue_size,     \* metrics.queue_size
  req_success,    \* metrics.inference_requests, status="success"
  req_error,      \* metrics.inference_requests, status="error"
  token_throughput \* metrics.token_throughput, operation="output"

cacheVars == <<precompiled, in_compiling, lock_holder, lock_waiters, funcs,
               pc, key, kind, loop, depth, compiles, overlap>>

genVars == <<cfg, input_ids, attention_mask, position_ids, state, tlen, sel_hist, g_pc, g_iter,
             yielded, g_error, queue_size, req_success, req_error,
             token_throughput>>

vars == <<cacheVars, genVars>>

(***************************************************************************)
(* COMPILED_FUNCS                                                          *)
(***************************************************************************)
\* mutant: the search key leaves out the engine's id
SearchKey_NoId(k, id) == <<k[1], k[2], 0>>

\* mutant: the search key leaves out the input length
SearchKey_NoLength(k, id) == <<k[1], 0, id>>

\* search_key = f"Bx{batch_size}-Sx{input_tokens_length}-UUID{id}"
SearchKey(k, id) == <<k[1], k[2], id>>

SearchKeys == {SearchKey(k, EngineId) : k \in CacheKeys}

\* COMPILED_FUNCS.get(search_key, (None, None))
get_compiled_funcs(k, id) ==
  IF SearchKey(k, id) \in DOMAIN funcs THEN funcs[SearchKey(k, id)] ELSE NoFuncs

\* mutant: the store replaces the whole map by the new entry
put_compiled_funcs_DropsOthers(gen, interval, k, id) ==
  [s \in {SearchKey(k, id)} |-> <<gen, interval>>]

\* COMPILED_FUNCS[search_key] = (compiled_generate_func, compiled_interval_func)
put_compiled_funcs(gen, interval, k, id) ==
  [s \in (DOMAIN funcs) \cup {SearchKey(k, id)} |->
     IF s = SearchKey(k, id) THEN <<gen, interval>> ELSE funcs[s]]

(***************************************************************************)
(* asyncio.Lock: acquire returns at once when the lock is free and nobody  *)
(* waits, else the caller queues; release hands the lock to the first      *)
(* waiter when that waiter next runs.                                      *)
(***************************************************************************)
LockFree == lock_holder = 0 /\ lock_waiters = <<>>

Active(t) == pc[t] \notin {"idle", "returned", "raised", "recursion_error"}

CacheInit ==
  /\ precompiled = {}
  /\ in_compiling = {}
  /\ lock_holder = 0
  /\ lock_waiters = <<>>
  /\ funcs = << >>
  /\ pc = [t \in Tasks |-> "idle"]
  /\ key = [t \in Tasks |-> NoKey]
  /\ kind = [t \in Tasks |-> "none"]
  /\ loop = 0
  /\ depth = [t \in Tasks |-> 0]
  /\ compiles = [k \in AllKeys |-> 0]
  /\ overlap = FALSE

\* no generate call: the request variables at rest
GenIdle ==
  /\ cfg = [max_new_tokens |-> 1, streaming_chunks |-> 1,
            eos_token_id |-> {7}, pad_token_id |-> 0]
  /\ input_ids = <<>>
  /\ attention_mask = <<>>
  /\ position_ids = <<>>
  /\ state = NoState
  /\ tlen = 0
  /\ sel_hist = <<>>
  /\ g_pc = "idle"
  /\ g_iter = 0
  /\ yielded = <<>>
  /\ g_error = "none"
  /\ queue_size = 0
  /\ req_success = 0
  /\ req_error = 0
  /\ token_throughput = 0

Init == CacheInit /\ GenIdle

\* a call starts: remember whether another call is in progress
NoteOverlap(t) == overlap' = (overlap \/ \E u \in Tasks \ {t} : Active(u))

(***************************************************************************)
(* async_precompile, lines 742-767: one action per stretch between awaits, *)
(* and one per step of the build, which other threads can interleave with. *)
(***************************************************************************)
\* mutant: no fast path, every call goes for the lock
AsyncCall_NoFastPath(t, k) ==
  /\ pc[t] = "idle"
  /\ loop = 0
  /\ key' = [key EXCEPT ![t] = k]
  /\ kind' = [kind EXCEPT ![t] = "async"]
  /\ NoteOverlap(t)
  /\ IF LockFree
       THEN /\ lock_holder' = t
            /\ pc' = [pc EXCEPT ![t] = "a_locked"]
            /\ loop' = t
            /\ UNCHANGED lock_waiters
       ELSE /\ lock_waiters' = Append(lock_waiters, t)
            /\ pc' = [pc EXCEPT ![t] = "a_wait"]
            /\ UNCHANGED <<lock_holder, loop>>
  /\ UNCHANGED <<precompiled, in_compiling, funcs, depth, compiles>>

\* lines 744-747: the fast path, then `async with self._precompile_lock`
AsyncCall(t, k) ==
  /\ pc[t] = "idle"
  /\ loop = 0
  /\ key' = [key EXCEPT ![t] = k]
  /\ kind' = [kind EXCEPT ![t] = "async"]
  /\ NoteOverlap(t)
  /\ IF k \in precompiled
       THEN /\ pc' = [pc EXCEPT ![t] = "returned"]
            /\ UNCHANGED <<lock_holder, lock_waiters, loop>>
       ELSE IF LockFree
         THEN /\ lock_holder' = t
              /\ pc' = [pc EXCEPT ![t] = "a_locked"]
              /\ loop' = t
              /\ UNCHANGED lock_waiters
         ELSE /\ lock_waiters' = Append(lock_waiters, t)
              /\ pc' = [pc EXCEPT ![t] = "a_wait"]
              /\ UNCHANGED <<lock_holder, loop>>
  /\ UNCHANGED <<precompiled, in_compiling, funcs, depth, compiles>>

\* line 747: a suspended acquire is resumed once the lock was released
AsyncWake(t) ==
  /\ pc[t] = "a_wait"
  /\ loop = 0
  /\ lock_holder = 0
  /\ lock_waiters # <<>> /\ Head(lock_waiters) = t
  /\ lock_holder' = t
  /\ lock_waiters' = Tail(lock_waiters)
  /\ pc' = [pc EXCEPT ![t] = "a_locked"]
  /\ loop' = t
  /\ UNCHANGED <<precompiled, in_compiling, funcs, key, kind, depth, compiles, overlap>>

\* lines 748-761: under the lock, re-check, then wait or mark the key
AsyncLocked(t) ==
  /\ pc[t] = "a_locked"
  /\ loop = t
  /\ IF key[t] \in precompiled
       THEN /\ pc' = [pc EXCEPT ![t] = "returned"]
            /\ lock_holder' = 0
            /\ loop' = 0
            /\ UNCHANGED in_compiling
       ELSE IF key[t] \in in_compiling
         THEN /\ pc' = [pc EXCEPT ![t] = "a_sleep"]
              /\ loop' = 0
              /\ UNCHANGED <<lock_holder, in_compiling>>
         ELSE /\ in_compiling' = in_compiling \cup {key[t]}
              /\ pc' = [pc EXCEPT ![t] = "build_get"]
              /\ UNCHANGED <<lock_holder, loop>>
  /\ UNCHANGED <<precompiled, lock_waiters, funcs, key, kind, depth, compiles, overlap>>

\* lines 751-755: after asyncio.sleep(5) the call recurses while the outer call
\* still holds the lock: the inner call takes the fast path, or queues on the
\* lock its own outer call holds
AsyncAfterSleep(t) ==
  /\ pc[t] = "a_sleep"
  /\ loop = 0
  /\ IF key[t] \in precompiled
       THEN /\ pc' = [pc EXCEPT ![t] = "returned"]
            /\ lock_holder' = 0
            /\ UNCHANGED lock_waiters
       ELSE /\ pc' = [pc EXCEPT ![t] = "a_wait"]
            /\ lock_waiters' = Append(lock_waiters, t)
            /\ UNCHANGED lock_holder
  /\ UNCHANGED <<precompiled, in_compiling, funcs, key, kind, loop, depth, compiles, overlap>>

(***************************************************************************)
(* precompile, lines 788-811, called from a thread.                        *)
(***************************************************************************)
\* lines 792-800: the checks of one call (or of one recursion)
SyncCheck(t) ==
  IF key'[t] \in precompiled
    THEN pc' = [pc EXCEPT ![t] = "returned"]
    ELSE IF key'[t] \in in_compiling
      THEN pc' = [pc EXCEPT ![t] = "s_sleep"]
      ELSE pc' = [pc EXCEPT ![t] = "s_mark"]

SyncCall(t, k) ==
  /\ pc[t] = "idle"
  /\ key' = [key EXCEPT ![t] = k]
  /\ kind' = [kind EXCEPT ![t] = "sync"]
  /\ NoteOverlap(t)
  /\ SyncCheck(t)
  /\ UNCHANGED <<precompiled, in_compiling, lock_holder, lock_waiters, funcs,
                 loop, depth, compiles>>

\* lines 795-799: time.sleep(5), then the recursive call's checks; every
\* recursion is one frame deeper, and the interpreter raises RecursionError
\* at its limit
SyncAfterSleep(t) ==
  /\ pc[t] = "s_sleep"
  /\ UNCHANGED key
  /\ IF depth[t] >= RecursionLimit
       THEN /\ pc' = [pc EXCEPT ![t] = "recursion_error"]
            /\ UNCHANGED depth
       ELSE /\ depth' = [depth EXCEPT ![t] = @ + 1]
            /\ SyncCheck(t)
  /\ UNCHANGED <<precompiled, in_compiling, lock_holder, lock_waiters, funcs,
                 kind, loop, compiles, overlap>>

\* line 805: self._in_compiling_process.add(config_key)
SyncMark(t) ==
  /\ pc[t] = "s_mark"
  /\ in_compiling' = in_compiling \cup {key[t]}
  /\ pc' = [pc EXCEPT ![t] = "build_get"]
  /\ UNCHANGED <<precompiled, lock_holder, lock_waiters, funcs, key, kind,
                 loop, depth, compiles, overlap>>

(***************************************************************************)
(* _compile_and_lower_funs, lines 672-721, and the caller's lines after it.*)
(***************************************************************************)
\* mutant: the build never compiles, whatever the lookup returned
do_compile_Never(k) == FALSE

\* lines 673-678: do_compile
do_compile(k) ==
  LET got == get_compiled_funcs(k, EngineId)
  IN  got[1] = 0 \/ got[2] = 0

BuildGet(t) ==
  /\ pc[t] = "build_get"
  /\ IF do_compile(key[t])
       THEN /\ pc' = [pc EXCEPT ![t] = "build_compile"]
            /\ compiles' = [compiles EXCEPT ![key[t]] = @ + 1]
       ELSE /\ pc' = [pc EXCEPT ![t] = "build_done"]
            /\ UNCHANGED compiles
  /\ UNCHANGED <<precompiled, in_compiling, lock_holder, lock_waiters, funcs,
                 key, kind, loop, depth, overlap>>

\* lines 680-721: the two plans are compiled and stored; the pair a build
\* stores is named after the task that built it
BuildCompile(t) ==
  /\ pc[t] = "build_compile"
  /\ funcs' = put_compiled_funcs(t, t, key[t], EngineId)
  /\ pc' = [pc EXCEPT ![t] = "build_done"]
  /\ UNCHANGED <<precompiled, in_compiling, lock_holder, lock_waiters,
                 key, kind, loop, depth, compiles, overlap>>

\* what the caller's `with` / `async with` blocks do when the build raises:
\* the lock is released, nothing else is undone (lines 747, 757-765, 801-809)
OnBuildError(t) ==
  /\ pc' = [pc EXCEPT ![t] = "raised"]
  /\ IF kind[t] = "async"
       THEN lock_holder' = 0 /\ loop' = 0
       ELSE UNCHANGED <<lock_holder, loop>>
  /\ UNCHANGED <<precompiled, in_compiling>>

\* lines 684-713: smart_compile or the warm-up run raises
BuildFail(t) ==
  /\ pc[t] = "build_compile"
  /\ OnBuildError(t)
  /\ UNCHANGED <<lock_waiters, funcs, key, kind, depth, compiles, overlap>>

\* mutant: the call returns True without adding the key to _precompiled_configs
MarkReady_Forgets(t) ==
  /\ UNCHANGED precompiled
  /\ pc' = [pc EXCEPT ![t] = "returned"]

\* lines 766-767 and 810-811: the key becomes READY and the call returns True
MarkReady(t) ==
  /\ precompiled' = precompiled \cup {key[t]}
  /\ pc' = [pc EXCEPT ![t] = "returned"]

\* mutant: the lock is not released when the build is done
BuildDone_KeepsLock(t) ==
  /\ pc[t] = "build_done"
  /\ MarkReady(t)
  /\ IF kind[t] = "async"
       THEN UNCHANGED lock_holder /\ loop' = 0
       ELSE UNCHANGED <<lock_holder, loop>>
  /\ UNCHANGED <<in_compiling, lock_waiters, funcs, key, kind, depth, compiles, overlap>>

BuildDone(t) ==
  /\ pc[t] = "build_done"
  /\ MarkReady(t)
  /\ IF kind[t] = "async"
       THEN lock_holder' = 0 /\ loop' = 0
       ELSE UNCHANGED <<lock_holder, loop>>
  /\ UNCHANGED <<in_compiling, lock_waiters, funcs, key, kind, depth, compiles, overlap>>

\* Spec: the callers of the cache; no generate call is under way
Next ==
  \E t \in Tasks :
    \/ \E k \in CacheKeys : AsyncCall(t, k) /\ UNCHANGED genVars
    \/ \E k \in CacheKeys : SyncCall(t, k) /\ UNCHANGED genVars
    \/ AsyncWake(t) /\ UNCHANGED genVars
    \/ AsyncLocked(t) /\ UNCHANGED genVars
    \/ AsyncAfterSleep(t) /\ UNCHANGED genVars
    \/ SyncAfterSleep(t) /\ UNCHANGED genVars
    \/ SyncMark(t) /\ UNCHANGED genVars
    \/ BuildGet(t) /\ UNCHANGED genVars
    \/ BuildCompile(t) /\ UNCHANGED genVars
    \/ BuildFail(t) /\ UNCHANGED genVars
    \/ BuildDone(t) /\ UNCHANGED genVars

(***************************************************************************)
(* EngineSpec: the callers of the cache of one engine, next to a second    *)
(* engine instance that builds plans of the same shapes and stores them in *)
(* the same module-level COMPILED_FUNCS.                                   *)
(***************************************************************************)
\* self._uuid4 of the second engine (line 399)
OtherEngineId == 2

\* the pair a build of the second engine stores
OtherPair == <<NumTasks + 1, NumTasks + 1>>

\* _compile_and_lower_funs of the second engine, lines 673-721
OtherBuild(k) ==
  /\ get_compiled_funcs(k, OtherEngineId) = NoFuncs
  /\ funcs' = put_compiled_funcs(OtherPair[1], OtherPair[2], k, OtherEngineId)
  /\ UNCHANGED <<precompiled, in_compiling, lock_holder, lock_waiters, pc, key,
                 kind, loop, depth, compiles, overlap>>

EngineNext ==
  \/ Next
  \/ \E k \in CacheKeys : OtherBuild(k) /\ UNCHANGED genVars

EngineSpec == Init /\ [][EngineNext]_vars

(***************************************************************************)
(* StepSpec: the prime plan and the interval plan applied to every input   *)
(* of the bounds, the interval plan one loop iteration at a time.          *)
(***************************************************************************)
StepInit ==
  /\ CacheInit
  /\ cfg \in Configs(StepMaxNew)
  /\ \E b \in Batches : \E n \in StepPrompts : input_ids = Prompt(b, n)
  /\ attention_mask \in {None, ones_like(input_ids)}
  /\ position_ids = default_position_ids(ones_like(input_ids), None)
  /\ state = NoState
  /\ tlen = 0
  /\ sel_hist = <<>>
  /\ g_pc = "new"
  /\ g_iter = 0
  /\ yielded = <<>>
  /\ g_error = "none"
  /\ queue_size = 0
  /\ req_success = 0
  /\ req_error = 0
  /\ token_throughput = 0

Selections == [Rows(input_ids) -> Vocab]

\* the plan's caller keeps everything but the state
PlanFrame ==
  UNCHANGED <<cacheVars, cfg, input_ids, attention_mask, position_ids, g_iter, yielded, g_error,
              queue_size, req_success, req_error, token_throughput>>

\* compiled_generate_func(params, input_ids, attention_mask, position_ids, rng)
PlanPrime ==
  /\ g_pc = "new"
  /\ \E selected \in Selections :
       /\ state' = compiled_generate_func(input_ids, attention_mask, position_ids,
                                          cfg, InitialRng, selected)
       /\ sel_hist' = IF state'.generated_tokens > 0 THEN <<selected>> ELSE <<>>
  /\ g_pc' = "primed"
  /\ UNCHANGED tlen
  /\ PlanFrame

\* compiled_interval_func(params, state, loop_max_tokens, start_length): line 240
PlanIntervalCall ==
  /\ g_pc = "primed"
  /\ state.generated_tokens + cfg.streaming_chunks <= cfg.max_new_tokens + 1
  /\ tlen' = interval_tlen(state, cfg.streaming_chunks, Len(input_ids[1]))
  /\ g_pc' = "interval"
  /\ UNCHANGED <<state, sel_hist>>
  /\ PlanFrame

\* one iteration of the while_loop, line 310
PlanIntervalStep ==
  /\ g_pc = "interval"
  /\ cond_fn(state, tlen)
  /\ \E selected \in Selections :
       /\ state' = interval_sample(state, selected, cfg)
       /\ sel_hist' = Append(sel_hist, selected)
  /\ UNCHANGED <<g_pc, tlen>>
  /\ PlanFrame

\* the while_loop ends and the plan returns its state, lines 310-311
PlanIntervalReturn ==
  /\ g_pc = "interval"
  /\ ~cond_fn(state, tlen)
  /\ g_pc' = "primed"
  /\ UNCHANGED <<state, tlen, sel_hist>>
  /\ PlanFrame

StepNext ==
  \/ PlanPrime
  \/ PlanIntervalCall
  \/ PlanIntervalStep
  \/ PlanIntervalReturn

StepSpec == StepInit /\ [][StepNext]_vars

\* a while_loop that has been entered goes on until its condition is false
FairStepSpec == StepSpec /\ WF_vars(PlanIntervalStep \/ PlanIntervalReturn)

(***************************************************************************)
(* GenSpec: one generate call (lines 568-670) for every request of the     *)
(* bounds, on an engine whose cache is fresh, holds the request's shape, or*)
(* was left by a failed build of that shape; and the call's consumer.      *)
(***************************************************************************)
GenKey == <<Cardinality(Rows(input_ids)), Len(input_ids[1])>>

\* an earlier caller of the request's shape: none, one whose build succeeded,
\* one whose build failed
EarlierTask == 2

CacheAfter(k, outcome) ==
  /\ precompiled = IF outcome = "returned" THEN {k} ELSE {}
  /\ in_compiling = IF outcome = "idle" THEN {} ELSE {k}
  /\ lock_holder = 0
  /\ lock_waiters = <<>>
  /\ funcs = IF outcome = "returned"
               THEN [s \in {SearchKey(k, EngineId)} |-> <<EarlierTask, EarlierTask>>]
               ELSE << >>
  /\ pc = [t \in Tasks |-> IF t = EarlierTask THEN outcome ELSE "idle"]
  /\ key = [t \in Tasks |-> IF t = EarlierTask /\ outcome # "idle" THEN k ELSE NoKey]
  /\ kind = [t \in Tasks |-> IF t = EarlierTask /\ outcome # "idle" THEN "async" ELSE "none"]
  /\ loop = 0
  /\ depth = [t \in Tasks |-> 0]
  /\ compiles = [j \in AllKeys |-> IF j = k /\ outcome # "idle" THEN 1 ELSE 0]
  /\ overlap = FALSE

GenInit ==
  /\ cfg \in Configs(MaxNewTokens)
  /\ \E b \in Batches : \E n \in 1..MaxPrompt : input_ids = Prompt(b, n)
  /\ \/ attention_mask = None /\ position_ids = None
     \/ /\ attention_mask = ones_like(input_ids)
        /\ position_ids = cumsum_minus_one(attention_mask)
  /\ \E outcome \in {"idle", "returned", "raised"} : CacheAfter(GenKey, outcome)
  /\ state = NoState
  /\ tlen = 0
  /\ sel_hist = <<>>
  /\ g_pc = "idle"
  /\ g_iter = 0
  /\ yielded = <<>>
  /\ g_error = "none"
  /\ queue_size = 0
  /\ req_success = 0
  /\ req_error = 0
  /\ token_throughput = 0

\* line 589
GenEnter ==
  /\ g_pc = "idle"
  /\ queue_size' = queue_size + 1
  /\ g_pc' = "preprocessing"
  /\ UNCHANGED <<cacheVars, cfg, input_ids, attention_mask, position_ids, state, tlen, sel_hist,
                 g_iter, yielded, g_error, req_success, req_error, token_throughput>>

\* lines 595-597: await self.async_precompile(batch_size, seq_length)
GenPrecompileCall ==
  /\ g_pc = "preprocessing"
  /\ AsyncCall(GenTask, GenKey)
  /\ g_pc' = "precompile"
  /\ UNCHANGED <<cfg, input_ids, attention_mask, position_ids, state, tlen, sel_hist,
                 g_iter, yielded, g_error, queue_size, req_success, req_error,
                 token_throughput>>

\* the steps of that async_precompile call
GenPrecompileStep ==
  \/ g_pc = "precompile" /\ AsyncLocked(GenTask) /\ UNCHANGED genVars
  \/ g_pc = "precompile" /\ AsyncAfterSleep(GenTask) /\ UNCHANGED genVars
  \/ g_pc = "precompile" /\ BuildGet(GenTask) /\ UNCHANGED genVars
  \/ g_pc = "precompile" /\ BuildCompile(GenTask) /\ UNCHANGED genVars
  \/ g_pc = "precompile" /\ BuildFail(GenTask) /\ UNCHANGED genVars
  \/ g_pc = "precompile" /\ BuildDone(GenTask) /\ UNCHANGED genVars

\* mutant: the error path counts a success as well
OnException_AlsoSuccess(e) ==
  /\ req_error' = req_error + 1
  /\ req_success' = req_success + 1
  /\ queue_size' = queue_size - 1
  /\ IF state = NoState
       THEN /\ g_error' = "UnboundLocalError"
            /\ UNCHANGED token_throughput
       ELSE /\ g_error' = e
            /\ token_throughput' = token_throughput + state.generated_tokens
  /\ g_pc' = "raised"

\* mutant: the exit bookkeeping leaves queue_size as it is
OnException_NoDec(e) ==
  /\ req_error' = req_error + 1
  /\ UNCHANGED queue_size
  /\ IF state = NoState
       THEN /\ g_error' = "UnboundLocalError"
            /\ UNCHANGED token_throughput
       ELSE /\ g_error' = e
            /\ token_throughput' = token_throughput + state.generated_tokens
  /\ g_pc' = "raised"
  /\ UNCHANGED req_success

\* lines 656-670 when an exception reaches generate's try block: the error
\* counter, then the finally block, whose read of state.generated_tokens
\* raises UnboundLocalError while `state` was never assigned, in place of
\* the exception being re-raised
OnException(e) ==
  /\ req_error' = req_error + 1
  /\ queue_size' = queue_size - 1
  /\ IF state = NoState
       THEN /\ g_error' = "UnboundLocalError"
            /\ UNCHANGED token_throughput
       ELSE /\ g_error' = e
            /\ token_throughput' = token_throughput + state.generated_tokens
  /\ g_pc' = "raised"
  /\ UNCHANGED req_success

\* lines 652-655 and 662-670: the stream ran to its end
OnSuccess ==
  /\ req_success' = req_success + 1
  /\ queue_size' = queue_size - 1
  /\ token_throughput' = token_throughput + state.generated_tokens
  /\ g_pc' = "done"
  /\ UNCHANGED <<req_error, g_error>>

\* line 597: the build error raised by async_precompile
GenPrecompileRaised ==
  /\ g_pc = "precompile"
  /\ pc[GenTask] = "raised"
  /\ OnException("BuildError")
  /\ UNCHANGED <<cacheVars, cfg, input_ids, attention_mask, position_ids, state, tlen, sel_hist,
                 g_iter, yielded>>

\* the locals attention_mask and position_ids of generate after lines 603-615
\* (the variables attention_mask and position_ids keep the arguments as passed)
local_attention_mask == default_attention_mask(input_ids, attention_mask)
local_position_ids == default_position_ids(local_attention_mask, position_ids)

\* lines 598-615: the plans are read, the defaults substituted
GenPreprocessed ==
  /\ g_pc = "precompile"
  /\ pc[GenTask] = "returned"
  /\ g_pc' = "inference"
  /\ UNCHANGED <<cacheVars, cfg, input_ids, attention_mask, position_ids, state, tlen,
                 sel_hist, g_iter, yielded, g_error, queue_size, req_success,
                 req_error, token_throughput>>

\* mutant: the key handed to the prime plan depends on whether this call
\* built the plans itself
GenPrime_KeyAfterBuild ==
  /\ g_pc = "inference"
  /\ Shape(local_position_ids) = Shape(local_attention_mask)
  /\ \E selected \in Selections :
       /\ state' = compiled_generate_func(
                      input_ids, local_attention_mask, local_position_ids, cfg,
                      IF get_compiled_funcs(GenKey, EngineId) = <<GenTask, GenTask>>
                        THEN split(InitialRng) ELSE InitialRng,
                      selected)
       /\ sel_hist' = IF state'.generated_tokens > 0 THEN <<selected>> ELSE <<>>
  /\ g_pc' = "check"
  /\ UNCHANGED <<cacheVars, cfg, input_ids, attention_mask, position_ids, tlen, g_iter, yielded,
                 g_error, queue_size, req_success, req_error, token_throughput>>

\* lines 620-628: the prime plan
GenPrime ==
  /\ g_pc = "inference"
  /\ Shape(local_position_ids) = Shape(local_attention_mask)
  /\ \E selected \in Selections :
       /\ state' = compiled_generate_func(input_ids, local_attention_mask,
                                          local_position_ids, cfg, InitialRng, selected)
       /\ sel_hist' = IF state'.generated_tokens > 0 THEN <<selected>> ELSE <<>>
  /\ g_pc' = "check"
  /\ UNCHANGED <<cacheVars, cfg, input_ids, attention_mask, position_ids, tlen, g_iter, yielded,
                 g_error, queue_size, req_success, req_error, token_throughput>>

\* lines 620-627: the prime plan raises
GenPrimeRaises ==
  /\ g_pc = "inference"
  /\ OnException("StepError")
  /\ UNCHANGED <<cacheVars, cfg, input_ids, attention_mask, position_ids, state, tlen, sel_hist,
                 g_iter, yielded>>

\* bool(state.is_sequence_finished), lines 629 and 648: defined for an array
\* of one element only
truth_defined(st) == Cardinality(Rows(st.is_sequence_finished)) = 1
\* mutant: the truth value is never true, so line 648 never breaks
truth_NeverTrue(st) == FALSE

truth(st) == st.is_sequence_finished[1]

\* line 629 with more than one row: ValueError (the truth value of an array
\* with more than one element is ambiguous)
GenCheckRaises ==
  /\ g_pc = "check"
  /\ ~truth_defined(state)
  /\ OnException("ValueError")
  /\ UNCHANGED <<cacheVars, cfg, input_ids, attention_mask, position_ids, state, tlen, sel_hist,
                 g_iter, yielded>>

\* lines 629-631 and 650-651: the prime state is yielded only if finished
GenCheck ==
  /\ g_pc = "check"
  /\ truth_defined(state)
  /\ IF ~truth(state)
       THEN /\ g_pc' = "loop"
            /\ g_iter' = 0
            /\ UNCHANGED yielded
       ELSE /\ g_pc' = "yielded_prime"
            /\ yielded' = Append(yielded, state)
            /\ UNCHANGED g_iter
  /\ UNCHANGED <<cacheVars, cfg, input_ids, attention_mask, position_ids, state, tlen, sel_hist,
                 g_error, queue_size, req_success, req_error, token_throughput>>

\* lines 631-647: one chunk of the interval plan, then the yield
GenInterval ==
  /\ g_pc = "loop"
  /\ g_iter < loop_rows(cfg)
  /\ \E toks \in [1..cfg.streaming_chunks -> Selections] :
       LET new == compiled_interval_generate(state, cfg, cfg.streaming_chunks,
                                             Len(input_ids[1]), toks)
           taken == new.generated_tokens - state.generated_tokens
       IN  /\ state' = new
           /\ sel_hist' = sel_hist \o SubSeq(toks, 1, taken)
           /\ yielded' = Append(yielded, new)
  /\ g_pc' = "yielded"
  /\ UNCHANGED <<cacheVars, cfg, input_ids, attention_mask, position_ids, tlen, g_iter,
                 g_error, queue_size, req_success, req_error, token_throughput>>

\* lines 632-640: the interval plan raises
GenIntervalRaises ==
  /\ g_pc = "loop"
  /\ g_iter < loop_rows(cfg)
  /\ OnException("StepError")
  /\ UNCHANGED <<cacheVars, cfg, input_ids, attention_mask, position_ids, state, tlen, sel_hist,
                 g_iter, yielded>>

\* lines 648-649 and the for statement: the consumer asks for the next snapshot
GenResume ==
  /\ g_pc = "yielded"
  /\ IF ~truth(state) /\ g_iter + 1 < loop_rows(cfg)
       THEN /\ g_pc' = "loop"
            /\ g_iter' = g_iter + 1
            /\ UNCHANGED <<g_error, queue_size, req_success, req_error, token_throughput>>
       ELSE /\ OnSuccess
            /\ UNCHANGED g_iter
  /\ UNCHANGED <<cacheVars, cfg, input_ids, attention_mask, position_ids, state, tlen, sel_hist,
                 yielded>>

\* line 651, resumed: the stream ends
GenResumePrime ==
  /\ g_pc = "yielded_prime"
  /\ OnSuccess
  /\ UNCHANGED <<cacheVars, cfg, input_ids, attention_mask, position_ids, state, tlen, sel_hist,
                 g_iter, yielded>>

\* mutant: closing the stream counts a successful request
GenClose_CountsSuccess ==
  /\ g_pc \in {"yielded", "yielded_prime"}
  /\ queue_size' = queue_size - 1
  /\ req_success' = req_success + 1
  /\ token_throughput' = token_throughput + state.generated_tokens
  /\ g_pc' = "closed"
  /\ UNCHANGED <<cacheVars, cfg, input_ids, attention_mask, position_ids, state, tlen,
                 sel_hist, g_iter, yielded, g_error, req_error>>

\* the consumer closes the stream at a yield: GeneratorExit is no Exception,
\* only the finally block runs (lines 662-670)
GenClose ==
  /\ g_pc \in {"yielded", "yielded_prime"}
  /\ queue_size' = queue_size - 1
  /\ token_throughput' = token_throughput + state.generated_tokens
  /\ g_pc' = "closed"
  /\ UNCHANGED <<cacheVars, cfg, input_ids, attention_mask, position_ids, state, tlen, sel_hist,
                 g_iter, yielded, g_error, req_success, req_error>>

GenNext ==
  \/ GenEnter
  \/ GenPrecompileCall
  \/ GenPrecompileStep
  \/ GenPrecompileRaised
  \/ GenPreprocessed
  \/ GenPrime
  \/ GenPrimeRaises
  \/ GenCheckRaises
  \/ GenCheck
  \/ GenInterval
  \/ GenIntervalRaises
  \/ GenResume
  \/ GenResumePrime
  \/ GenClose

GenSpec == GenInit /\ [][GenNext]_vars

(***************************************************************************)
(* SinkSpec: the generate call with a metrics sink whose operations can    *)
(* raise: the queue_size increment at entry (line 589, before the try      *)
(* block) and the success counter at the end of the stream (lines 652-655, *)
(* inside it).                                                             *)
(***************************************************************************)
\* line 589 raises: the error leaves generate before the try block is entered
GenEnterSinkFails ==
  /\ g_pc = "idle"
  /\ g_pc' = "raised"
  /\ g_error' = "MetricsError"
  /\ UNCHANGED <<cacheVars, cfg, input_ids, attention_mask, position_ids, state, tlen, sel_hist,
                 g_iter, yielded, queue_size, req_success, req_error,
                 token_throughput>>

\* lines 652-655 raise when the stream has ended: the except clause counts an
\* error and re-raises, the finally block runs
GenSuccessSinkFails ==
  /\ \/ g_pc = "yielded_prime"
     \/ g_pc = "yielded" /\ ~(~truth(state) /\ g_iter + 1 < loop_rows(cfg))
  /\ OnException("MetricsError")
  /\ UNCHANGED <<cacheVars, cfg, input_ids, attention_mask, position_ids, state, tlen, sel_hist,
                 g_iter, yielded>>

SinkNext ==
  \/ GenNext
  \/ GenEnterSinkFails
  \/ GenSuccessSinkFails

SinkSpec == GenInit /\ [][SinkNext]_vars

(***************************************************************************)
(* EmptySpec: a generate call whose prompt has no tokens (input_ids of     *)
(* shape (batch, 0)), followed through lines 589-615, up to the end of     *)
(* plan acquisition.                                                       *)
(***************************************************************************)
EmptyInit ==
  /\ cfg \in Configs(MaxNewTokens)
  /\ \E b \in Batches : input_ids = Prompt(b, 0)
  /\ attention_mask \in {None, ones_like(input_ids)}
  /\ position_ids = None
  /\ \E outcome \in {"idle", "returned", "raised"} : CacheAfter(GenKey, outcome)
  /\ state = NoState
  /\ tlen = 0
  /\ sel_hist = <<>>
  /\ g_pc = "idle"
  /\ g_iter = 0
  /\ yielded = <<>>
  /\ g_error = "none"
  /\ queue_size = 0
  /\ req_success = 0
  /\ req_error = 0
  /\ token_throughput = 0

EmptyNext ==
  \/ GenEnter
  \/ GenPrecompileCall
  \/ GenPrecompileStep
  \/ GenPrecompileRaised
  \/ GenPreprocessed

EmptySpec == EmptyInit /\ [][EmptyNext]_vars

\* the event loop runs the generate coroutine and its consumer goes on
\* iterating (or closes the stream)
FairGenSpec == GenSpec /\ WF_vars(GenNext)

Spec == Init /\ [][Next]_vars

\* every step of a call that is under way (the calls themselves are the callers')
TaskStep(t) ==
  /\ UNCHANGED genVars
  /\ \/ AsyncWake(t)
     \/ AsyncLocked(t)
     \/ AsyncAfterSleep(t)
     \/ SyncAfterSleep(t)
     \/ SyncMark(t)
     \/ BuildGet(t)
     \/ BuildCompile(t)
     \/ BuildFail(t)
     \/ BuildDone(t)

\* the event loop runs every ready coroutine and the OS every thread
FairSpec == Spec /\ \A t \in Tasks : WF_vars(TaskStep(t))

(***************************************************************************)
(* Claims about the plan cache.                                            *)
(***************************************************************************)
AsyncOnly == \A t \in Tasks : kind[t] # "sync"
NoFailure == \A t \in Tasks : pc[t] # "raised"
Returned(t, k) == pc[t] = "returned" /\ key[t] = k
FailedKey(k) == \E u \in Tasks : pc[u] = "raised" /\ key[u] = k
\* a call that waits for the lock its own outer call holds
SelfBlocked(t) == pc[t] = "a_wait" /\ lock_holder = t

\* the pair every caller of key k reads after its call returned
C1_Pair(k) ==
  LET got == get_compiled_funcs(k, EngineId)
  IN  /\ got # NoFuncs
      /\ got[1] = got[2]
      /\ got[1] \in Tasks
      /\ key[got[1]] = k

C1_Inv ==
  (AsyncOnly /\ NoFailure) =>
    /\ \A k \in CacheKeys : compiles[k] <= 1
    /\ \A t \in Tasks : ~SelfBlocked(t)
    /\ \A t \in Tasks : \A k \in CacheKeys :
         Returned(t, k) => (k \in precompiled /\ compiles[k] = 1 /\ C1_Pair(k))

C1_Step ==
  (AsyncOnly /\ NoFailure) =>
    \A k \in precompiled :
      get_compiled_funcs(k, EngineId)' = get_compiled_funcs(k, EngineId)

\* C1: with only async_precompile callers and no build failure, the compile
\* work for a key is started at most once, no call raises or blocks itself,
\* and every call that has returned finds its key READY with the one pair the
\* single build stored, which no later step replaces.
C1_SingleFlightAsync == []C1_Inv /\ [][C1_Step]_vars

\* three async callers of one key have all returned True after one build
C1_Witness ==
  /\ AsyncOnly
  /\ \E k \in CacheKeys :
       /\ \A t \in Tasks : Returned(t, k)
       /\ compiles[k] = 1

\* C2: once a build failure has been raised to its caller, the key is ABSENT:
\* in neither _in_compiling_process nor _precompiled_configs.
C2_FailureReverts ==
  \A t \in Tasks :
    pc[t] = "raised" => (key[t] \notin in_compiling /\ key[t] \notin precompiled)

\* C3: a call for a key whose build has failed, waiting or arriving later,
\* eventually terminates (returns or raises).
C3_WaitersTerminate ==
  \A t \in Tasks : (Active(t) /\ FailedKey(key[t])) ~> ~Active(t)

C10_Inv ==
  (~overlap /\ NoFailure) =>
    \A t \in Tasks : \A k \in CacheKeys :
      Returned(t, k) =>
        /\ k \in precompiled
        /\ compiles[k] = 1
        /\ get_compiled_funcs(k, EngineId) # NoFuncs

C10_Step ==
  \A t \in Tasks :
    (pc[t] = "idle" /\ pc'[t] # "idle" /\ key'[t] \in precompiled) =>
      /\ pc'[t] = "returned"
      /\ UNCHANGED <<precompiled, in_compiling, funcs, compiles, lock_holder>>

\* C10: in a run of sequential calls (async_precompile or precompile) without
\* build failure, a call that has returned True left its key READY after
\* exactly one build; and a call for a key that is already READY returns True
\* at once, starting no build and changing neither _precompiled_configs nor
\* COMPILED_FUNCS.
C10_MissThenHit == []C10_Inv /\ [][C10_Step]_vars

\* a first call built the key, and a second and a third call of the other
\* entry point returned after it, one after the other
C10_Witness ==
  /\ ~overlap
  /\ \E k \in CacheKeys :
       /\ \A t \in Tasks : Returned(t, k)
       /\ compiles[k] = 1
       /\ \E t, u \in Tasks : kind[t] = "async" /\ kind[u] = "sync"

(***************************************************************************)
(* Claims about the decode step, the plans and the stream of generate.     *)
(***************************************************************************)
PromptLength == Len(input_ids[1])

\* the state a plan's step starts from: the prime plan builds its own
StepPre ==
  IF g_pc = "new"
    THEN initial_state(input_ids, attention_mask, cfg, InitialRng)
    ELSE state

\* the transition ran one decode step
StepTaken == state'.generated_tokens = StepPre.generated_tokens + 1

\* the token that step wrote for row i: the buffer cell at the step's offset
\* (the last cell, once the offset has run past the buffer)
Written(i) ==
  state'.sequences[i][Min(StepPre.current_length, Len(StepPre.sequences[i]) - 1) + 1]

\* C4: every snapshot generate yields has
\* current_length <= prompt_length + max_new_tokens.
C4_BoundedLength ==
  \A n \in 1..Len(yielded) :
    yielded[n].current_length <= PromptLength + cfg.max_new_tokens

\* C5: current_length strictly increases from each yielded snapshot to the next.
C5_MonotoneLength ==
  \A n \in 1..(Len(yielded) - 1) :
    yielded[n].current_length < yielded[n + 1].current_length

\* a stream of three snapshots
C5_Witness == Len(yielded) >= 3

C6_Step ==
  IF StepTaken
    THEN \A i \in Rows(input_ids) :
           /\ StepPre.is_sequence_finished[i] => state'.is_sequence_finished[i]
           /\ ~StepPre.is_sequence_finished[i] =>
                (state'.is_sequence_finished[i] <=> Written(i) \in cfg.eos_token_id)
    ELSE state'.is_sequence_finished = StepPre.is_sequence_finished

\* C6: over the prime step and every interval step, a finished row stays
\* finished, and an unfinished row becomes finished in a step exactly when the
\* token written for it in that step is in the eos set.
C6_MonotoneFinished == [][C6_Step]_vars

\* a row that finished in an earlier step is still finished after a later
\* step, which another row took unfinished (pad is not a stop token here)
C6_Witness ==
  /\ state # NoState
  /\ cfg.pad_token_id \notin cfg.eos_token_id
  /\ \E i, r \in Rows(input_ids) :
       /\ state.is_sequence_finished[i]
       /\ ~state.is_sequence_finished[r]
       /\ \E j \in (PromptLength + 1)..(state.current_length - 1) :
            state.sequences[i][j] \in cfg.eos_token_id

C7_Step ==
  StepTaken =>
    \A i \in Rows(input_ids) :
      StepPre.is_sequence_finished[i] => Written(i) = cfg.pad_token_id

\* C7: a decode step taken with row i already finished writes pad_token_id
\* for row i, whatever the selector returned for that row.
C7_FinishedRowsPad == [][C7_Step]_vars

\* the selector returned a token other than pad for a row in the last step,
\* and the step wrote pad for it
C7_Witness ==
  /\ state # NoState
  /\ sel_hist # <<>>
  /\ \E i \in Rows(input_ids) :
       /\ sel_hist[Len(sel_hist)][i] # cfg.pad_token_id
       /\ state.running_token[i] = <<cfg.pad_token_id>>
       /\ state.sequences[i][Min(state.current_length, Len(state.sequences[i]))]
            = cfg.pad_token_id

Terminal == g_pc \in {"done", "raised", "closed"}

\* C8: if every row has reached a stop token within the first
\* streaming_chunks decode steps, the stream that has ended yielded exactly one
\* snapshot, with generated_tokens <= streaming_chunks, and ended without error.
C8_EarlyTermination ==
  (/\ Terminal
   /\ state # NoState
   /\ AllFinished(state)
   /\ state.generated_tokens <= cfg.streaming_chunks)
  => (/\ g_error = "none"
      /\ Len(yielded) = 1
      /\ yielded[1].generated_tokens <= cfg.streaming_chunks)

\* the literal scenario: one row, prompt [5, 9, 2], pad 0, eos {7},
\* max_new_tokens 4, streaming_chunks 1; the selector returned 3, then 7
Scenario ==
  /\ input_ids = Prompt(1, 3)
  /\ cfg = [max_new_tokens |-> 4, streaming_chunks |-> 1,
            eos_token_id |-> {7}, pad_token_id |-> 0]
  /\ Len(sel_hist) >= 2
  /\ sel_hist[1][1] = 3
  /\ sel_hist[2][1] = 7

\* C9 as claimed: in the scenario generate yields exactly two snapshots, the
\* first with current_length 4, last token 3, not finished, the second with
\* current_length 5, last tokens 3, 7, finished; then the stream ends.
C9_TwoSnapshots ==
  (Scenario /\ g_pc = "done") =>
    /\ Len(yielded) = 2
    /\ yielded[1].current_length = 4
    /\ yielded[1].sequences[1][4] = 3
    /\ ~yielded[1].is_sequence_finished[1]
    /\ yielded[2].current_length = 5
    /\ SubSeq(yielded[2].sequences[1], 4, 5) = <<3, 7>>
    /\ yielded[2].is_sequence_finished[1]

\* C9 amended: in the scenario generate yields exactly one snapshot, the
\* state after the second decode step: current_length 5, the buffer holding
\* 5, 9, 2, 3, 7 and pad, finished; the state after the first decode step is
\* never yielded; then the stream ends.
C9_OneSnapshot ==
  (Scenario /\ g_pc \in {"yielded", "done", "closed"}) =>
    /\ Len(yielded) = 1
    /\ yielded[1].current_length = 5
    /\ yielded[1].generated_tokens = 2
    /\ yielded[1].sequences[1] = <<5, 9, 2, 3, 7, 0, 0>>
    /\ yielded[1].is_sequence_finished[1]
    /\ g_error = "none"

\* the scenario's stream has run to its end
C9_Witness == Scenario /\ g_pc = "done" /\ req_success = 1

(***************************************************************************)
(* Claims about the stream of generate: the prime state and the loop.      *)
(***************************************************************************)
\* the state the prime plan returned in this call, recomputed from the request
\* and the selector's first output (which a one-token prompt does not use)
PrimeState ==
  compiled_generate(input_ids, attention_mask, cfg, InitialRng,
                    IF sel_hist = <<>> THEN [i \in Rows(input_ids) |-> 0]
                                       ELSE sel_hist[1])

\* the prime plan has returned and line 629 has been evaluated
PastCheck == state # NoState /\ g_pc # "check"

\* C11: for every batch size, when every row is finished in the state the
\* prime plan returned, generate yields exactly that state, runs no interval
\* chunk, and the stream ends without error.
C11_PrimeFinished ==
  (PastCheck /\ AllFinished(PrimeState)) =>
    /\ yielded = <<PrimeState>>
    /\ state = PrimeState
    /\ g_error = "none"
    /\ g_pc \in {"yielded_prime", "done", "closed"}

C13_LoopBound ==
  /\ Len(yielded) <= loop_rows(cfg)
  /\ g_pc = "loop" => Len(yielded) < loop_rows(cfg)
  /\ g_pc = "loop" => \A n \in 1..Len(yielded) : ~AllFinished(yielded[n])
  /\ \A n \in 1..(Len(yielded) - 1) : ~AllFinished(yielded[n])

\* a stream that stopped on a finished snapshot with chunks to spare
C13_Witness ==
  /\ g_pc = "done"
  /\ Len(yielded) = 2
  /\ Len(yielded) < loop_rows(cfg)
  /\ AllFinished(yielded[2])

\* the decode steps between snapshot n and snapshot n + 1
ChunkSteps(n) == yielded[n + 1].generated_tokens - yielded[n].generated_tokens

\* C14: each yielded snapshot reflects exactly streaming_chunks more decode
\* steps than the one before it, or fewer (at least one) when it is the last
\* snapshot and every row is finished in it; the buffers grow in that order.
C14_ChunkOrdering ==
  \A n \in 1..(Len(yielded) - 1) :
    /\ yielded[n + 1].current_length - yielded[n].current_length = ChunkSteps(n)
    /\ \/ ChunkSteps(n) = cfg.streaming_chunks
       \/ /\ ChunkSteps(n) >= 1
          /\ ChunkSteps(n) < cfg.streaming_chunks
          /\ n + 1 = Len(yielded)
          /\ AllFinished(yielded[n + 1])

\* a stream of a full chunk followed by a shorter, final one
C14_Witness ==
  /\ g_pc = "done"
  /\ Len(yielded) = 2
  /\ cfg.streaming_chunks = 2
  /\ ChunkSteps(1) = 1

\* a step of this call has failed: the build, the prime plan or a chunk
\* (an error raised before `state` is bound arrives as UnboundLocalError),
\* or an earlier build of the request's shape
StepFailed ==
  \/ g_error \in {"BuildError", "StepError", "UnboundLocalError"}
  \/ \E t \in Tasks : pc[t] = "raised"

LastYielded == yielded[Len(yielded)]

C15_DoneIsProper ==
  g_pc = "done" =>
    /\ yielded # <<>>
    /\ \/ AllFinished(LastYielded)
       \/ LastYielded.generated_tokens >= cfg.max_new_tokens

\* C15: when no step fails and the consumer goes on, the call reaches DONE
\* (unless the consumer closes the stream); DONE is never left; and at DONE
\* the last snapshot yielded is all-finished or has generated_tokens at
\* max_new_tokens or beyond.
C15_FiniteStream ==
  /\ <>(g_pc \in {"done", "closed"} \/ StepFailed)
  /\ [][g_pc = "done" => g_pc' = "done"]_vars
  /\ []C15_DoneIsProper

C17_ErrorReRaised ==
  g_pc = "raised" =>
    /\ req_error = 1
    /\ g_error # "UnboundLocalError"

\* C18: a generate call with a zero-token prompt is rejected before any
\* plan-cache work: its async_precompile call marks no key BUILDING, starts no
\* build, and the call does not get past plan acquisition.
C18_RejectedBeforePlanWork ==
  PromptLength = 0 =>
    /\ pc[GenTask] \notin {"build_get", "build_compile", "build_done"}
    /\ get_compiled_funcs(GenKey, EngineId) # <<GenTask, GenTask>>
    /\ g_pc # "inference"

Building(u, k) ==
  key[u] = k /\ pc[u] \in {"build_get", "build_compile", "build_done"}

\* C20: with no build failure, an async_precompile call is suspended (at the
\* lock, or asleep in the poll) only while another caller is building the
\* same key.
C20_BlockOnlySameKey ==
  NoFailure =>
    \A t \in Tasks :
      (kind[t] = "async" /\ pc[t] \in {"a_wait", "a_sleep"}) =>
        \E u \in Tasks \ {t} : Building(u, key[t])

RECURSIVE Replay(_)
\* the state after n decode steps, recomputed from the request, the fixed
\* initial key and the selector's outputs alone
Replay(n) ==
  IF n = 0
    THEN initial_state(input_ids, attention_mask, cfg, InitialRng)
    ELSE sampling_step(Replay(n - 1), sel_hist[n], cfg)

Builders(k) == {t \in Tasks : Building(t, k)}

\* C21: with precompile called from threads (alone or next to
\* async_precompile), at most one build of a key is in flight at any time and
\* the compile work of a key is never started by two callers.
C21_SingleFlightSync ==
  \A k \in CacheKeys :
    /\ Cardinality(Builders(k)) <= 1
    /\ NoFailure => compiles[k] <= 1

C22_Step ==
  /\ precompiled \subseteq precompiled'
  /\ DOMAIN funcs \subseteq DOMAIN funcs'
  /\ \A t \in Tasks :
       (pc[t] = "idle" /\ pc'[t] # "idle") =>
         /\ UNCHANGED <<precompiled, funcs>>
         /\ key'[t] \in precompiled => pc'[t] = "returned"
  /\ \A k \in precompiled :
       get_compiled_funcs(k, EngineId)' # get_compiled_funcs(k, EngineId) =>
         \E t \in Tasks : key[t] = k /\ pc[t] = "build_compile"

\* C22: a key in _precompiled_configs stays there and no entry of
\* COMPILED_FUNCS is ever removed; a call that starts when its key is READY
\* returns at once and a call for another key stores only under its own key,
\* so no call made after a key became READY replaces that key's pair (only a
\* build of the same key that was already under way can).
C22_ReadyIsPermanent == [][C22_Step]_vars

\* both keys READY with their pairs after three calls that all returned
C22_Witness ==
  /\ precompiled = CacheKeys
  /\ \A k \in CacheKeys : get_compiled_funcs(k, EngineId) # NoFuncs
  /\ \A t \in Tasks : pc[t] = "returned"
  /\ \A k \in CacheKeys : compiles[k] = 1

C30_Step ==
  \A t \in Tasks :
    (pc[t] = "idle" /\ kind'[t] = "async" /\ key'[t] \in precompiled) =>
      /\ pc'[t] = "returned"
      /\ UNCHANGED <<lock_holder, lock_waiters>>

OwnPair(k) ==
  LET got == get_compiled_funcs(k, EngineId)
  IN  got[1] = got[2] /\ got[1] \in Tasks /\ key[got[1]] = k

C23_Inv ==
  \A k \in CacheKeys :
    /\ get_compiled_funcs(k, OtherEngineId) \in {NoFuncs, OtherPair}
    /\ get_compiled_funcs(k, EngineId) # OtherPair
    /\ k \in precompiled => (OwnPair(k) /\ compiles[k] >= 1)

C23_Step ==
  \A k \in CacheKeys :
    /\ get_compiled_funcs(k, EngineId)' # get_compiled_funcs(k, EngineId) =>
         /\ \E t \in Tasks : key[t] = k /\ pc[t] = "build_compile"
         /\ get_compiled_funcs(k, OtherEngineId)' = get_compiled_funcs(k, OtherEngineId)
    /\ get_compiled_funcs(k, OtherEngineId)' # get_compiled_funcs(k, OtherEngineId) =>
         /\ get_compiled_funcs(k, OtherEngineId) = NoFuncs
         /\ UNCHANGED <<precompiled, in_compiling, pc, compiles>>
         /\ \A j \in CacheKeys :
              get_compiled_funcs(j, EngineId)' = get_compiled_funcs(j, EngineId)

\* C23: with two engines storing into the one COMPILED_FUNCS map, each engine
\* reads only pairs it built itself, a shape is READY on an engine only after
\* that engine's own build, and a build of one engine leaves the other
\* engine's entries and sets as they are.
C23_PerEngineKeys == []C23_Inv /\ [][C23_Step]_vars

\* both engines hold their own pair for one shape
C23_Witness ==
  \E k \in CacheKeys :
    /\ k \in precompiled
    /\ OwnPair(k)
    /\ get_compiled_funcs(k, OtherEngineId) = OtherPair

(***************************************************************************)
(* Further claims about the decode step and the plans.                     *)
(***************************************************************************)
\* the prime plan has returned and no interval plan has been called yet
JustPrimed == g_pc = "primed" /\ tlen = 0

\* C24: a decode step leaves its input SampleState as it was: after the prime
\* plan's step, the initial state it was applied to still has the field
\* values it was built with.
C24_ValueTypeState ==
  (JustPrimed /\ state.generated_tokens = 1) =>
    LET s0 == initial_state(input_ids, attention_mask, cfg, InitialRng)
    IN  input_after_step(s0, state) = s0

ChunkTaken == state.current_length - (tlen - cfg.streaming_chunks)

C29_Inv ==
  g_pc = "interval" => ChunkTaken \in 0..cfg.streaming_chunks

C29_Step ==
  /\ (g_pc = "interval" /\ (AllFinished(state) \/ ChunkTaken = cfg.streaming_chunks)) =>
       state' = state
  /\ (g_pc = "interval" /\ g_pc' = "primed") =>
       (AllFinished(state) \/ ChunkTaken = cfg.streaming_chunks)
  /\ (g_pc = "interval" /\ state' # state) =>
       state'.current_length = state.current_length + 1

\* C29: one invocation of the interval plan with loop_max_tokens = c takes
\* at most c decode steps, takes no step once every row is finished (none at
\* all when it starts from such a state), returns only when every row is
\* finished or c steps were taken, and always returns.
C29_BoundedInterval ==
  /\ []C29_Inv
  /\ [][C29_Step]_vars
  /\ (g_pc = "interval") ~> (g_pc = "primed")

\* an interval plan called with loop_max_tokens = 2 on a state with every row
\* finished has returned it after no step
C29_Witness ==
  /\ g_pc = "primed"
  /\ tlen = state.current_length + cfg.streaming_chunks
  /\ cfg.streaming_chunks = 2
  /\ AllFinished(state)

(***************************************************************************)
(* Further claims about generate: abandonment, failures, the metrics sink. *)
(***************************************************************************)
AtYield == g_pc \in {"yielded", "yielded_prime"}

C25_Inv ==
  (AtYield \/ g_pc = "closed") =>
    /\ GenKey \in precompiled
    /\ get_compiled_funcs(GenKey, EngineId) # NoFuncs
    /\ LockFree
    /\ \A t \in Tasks : ~Active(t)

C25_Step ==
  (AtYield \/ g_pc = "closed") => UNCHANGED cacheVars

\* C25: at every yield, and after the consumer closed the stream there, the
\* request's shape is READY with its pair stored, the lock is free and no
\* cache call is under way; no step from a yield on changes the cache, so a
\* later call for the shape takes the fast path.
C25_SafeAbandonment == []C25_Inv /\ [][C25_Step]_vars

\* the consumer closed a stream after its first snapshot, on plans this call
\* built itself
C25_Witness ==
  /\ g_pc = "closed"
  /\ Len(yielded) = 1
  /\ get_compiled_funcs(GenKey, EngineId) = <<GenTask, GenTask>>

C26_Inv ==
  (g_pc = "raised" /\ yielded # <<>>) =>
    /\ g_error = "StepError"
    /\ req_error = 1
    /\ req_success = 0

C26_Step ==
  /\ g_pc' = "raised" => yielded' = yielded
  /\ g_pc = "raised" => UNCHANGED <<g_pc, yielded, g_error, req_error, req_success>>

\* C26: when an interval chunk raises after snapshots were yielded, the
\* consumer receives that error, the call is over (no snapshot follows), the
\* error counter was incremented once and the success counter not at all, and
\* the snapshots already yielded are as they were.
C26_MidStreamFailure == []C26_Inv /\ [][C26_Step]_vars

\* a chunk raised after two snapshots
C26_Witness ==
  /\ g_pc = "raised"
  /\ Len(yielded) = 2
  /\ g_error = "StepError"

\* C27: a failing metrics-sink operation never reaches the consumer of
\* generate as an error.
C27_SinkIsolation == g_error # "MetricsError"

(***************************************************************************)
(* Further claims about the plan cache: waiters, stored pairs, progress.   *)
(***************************************************************************)
\* an async_precompile call that found its key marked under the lock and is
\* in its back-off, or is retrying after it
Waiting(t) == kind[t] = "async" /\ pc[t] = "a_sleep"

\* C31: while no build has failed, a waiter of async_precompile never queues
\* on the lock its own outer call still holds, and a waiter in its back-off
\* eventually returns True with its key READY.
C31_WaiterProgress ==
  /\ [](NoFailure => \A t \in Tasks : ~SelfBlocked(t))
  /\ \A t \in Tasks :
       Waiting(t) ~> ((pc[t] = "returned" /\ key[t] \in precompiled) \/ ~NoFailure)

(***************************************************************************)
(* Further claims about the decode step and the defaults of generate.      *)
(***************************************************************************)
\* the buffer of a bound state: the prompt first, pad from current_length on
C32_Inv ==
  g_pc # "new" =>
    \A i \in Rows(state.sequences) :
      \A j \in 1..Len(state.sequences[i]) :
        /\ j <= PromptLength => state.sequences[i][j] = input_ids[i][j]
        /\ j > state.current_length => state.sequences[i][j] = cfg.pad_token_id

\* a decode step at current_length = L has a cell L to write to and changes
\* no other cell (cell L of the 0-based buffer is index L + 1 here)
C32_Step ==
  StepTaken =>
    \A i \in Rows(StepPre.sequences) :
      /\ StepPre.current_length + 1 <= Len(StepPre.sequences[i])
      /\ \A j \in 1..Len(StepPre.sequences[i]) :
           j # StepPre.current_length + 1 =>
             state'.sequences[i][j] = StepPre.sequences[i][j]

\* C32: every decode step taken at current_length = L writes each row's token
\* at buffer position L and leaves every other position as it was, and in
\* every state the positions below the prompt length hold the prompt and the
\* positions at or above current_length hold pad_token_id.
C32_WritePosition == []C32_Inv /\ [][C32_Step]_vars

(***************************************************************************)
(* ArgsSpec: generate called with every combination of an attention_mask   *)
(* (omitted, all ones, left-padded) and a position_ids argument of the     *)
(* mask's shape (omitted, the cumulative sum of all ones minus one, zeros).*)
(***************************************************************************)
\* a mask that marks the first column of a longer prompt as padding
PaddedMask(ids) ==
  [i \in Rows(ids) |-> [j \in 1..Len(ids[i]) |-> IF j = 1 /\ Len(ids[i]) > 1 THEN 0 ELSE 1]]

ArgsInit ==
  /\ cfg \in Configs(StepMaxNew)
  /\ \E b \in Batches : \E n \in 1..MaxPrompt : input_ids = Prompt(b, n)
  /\ attention_mask \in {None, ones_like(input_ids), PaddedMask(input_ids)}
  /\ position_ids \in {None, cumsum_minus_one(ones_like(input_ids)),
                       [i \in Rows(input_ids) |-> [j \in 1..Len(input_ids[i]) |-> 0]]}
  /\ \E outcome \in {"idle", "returned", "raised"} : CacheAfter(GenKey, outcome)
  /\ state = NoState
  /\ tlen = 0
  /\ sel_hist = <<>>
  /\ g_pc = "idle"
  /\ g_iter = 0
  /\ yielded = <<>>
  /\ g_error = "none"
  /\ queue_size = 0
  /\ req_success = 0
  /\ req_error = 0
  /\ token_throughput = 0

ArgsSpec == ArgsInit /\ [][GenNext]_vars

RECURSIVE ExplicitReplay(_)
\* the state after n decode steps of the call made with an explicit all-ones
\* attention_mask (and position_ids = its cumulative sum minus one) and the
\* same selector outputs
ExplicitReplay(n) ==
  IF n = 0
    THEN initial_state(input_ids, ones_like(input_ids), cfg, InitialRng)
    ELSE sampling_step(ExplicitReplay(n - 1), sel_hist[n], cfg)

ArgsOmitted == attention_mask = None /\ position_ids = None

C33_Inv ==
  ArgsOmitted =>
    /\ g_error \notin {"Warning", "AssertionError"}
    /\ local_attention_mask = ones_like(input_ids)
    /\ local_position_ids = cumsum_minus_one(ones_like(input_ids))
    /\ state # NoState => state = ExplicitReplay(Len(sel_hist))
    /\ \A n \in 1..Len(yielded) :
         yielded[n] = ExplicitReplay(yielded[n].generated_tokens)

C33_Step ==
  (ArgsOmitted /\ g_pc = "precompile" /\ pc[GenTask] = "returned") =>
    (g_pc' = "inference" /\ g_error' = "none")

\* C33: a generate call with attention_mask and position_ids omitted passes
\* the substitution without an error and hands the prime plan an all-ones
\* mask and its cumulative sum minus one; its state and every snapshot it
\* yields are those of the call with these two arguments given explicitly
\* and the same selector outputs.
C33_DefaultSubstitution == []C33_Inv /\ [][C33_Step]_vars

\* a call with both arguments omitted ran to its end after two snapshots
C33_Witness ==
  /\ ArgsOmitted
  /\ g_pc = "done"
  /\ Len(yielded) = 2

RECURSIVE MaskReplay(_)
\* the state after n decode steps, recomputed from input_ids, the mask the
\* prime plan was handed, the configuration, the initial key and the
\* selector's outputs: position_ids is no argument of it
MaskReplay(n) ==
  IF n = 0
    THEN initial_state(input_ids, local_attention_mask, cfg, InitialRng)
    ELSE sampling_step(MaskReplay(n - 1), sel_hist[n], cfg)

\* C39: whatever position_ids argument (of the mask's shape) a generate call
\* is given, the state built by the prime step has its position counters
\* derived from attention_mask, and the state and every yielded snapshot are
\* a function of the other arguments and the selector's outputs: calls that
\* differ in position_ids only yield the same stream.
C39_PositionIdsIgnored ==
  state # NoState =>
    /\ MaskReplay(0).model_kwargs.position_ids = cumsum_minus_one(local_attention_mask)
    /\ state = MaskReplay(Len(sel_hist))
    /\ \A n \in 1..Len(yielded) : yielded[n] = MaskReplay(yielded[n].generated_tokens)

\* a call given a left-padded mask and position_ids that are not the mask's
\* cumulative sum minus one ran to its end after two snapshots
C39_Witness ==
  /\ attention_mask # None /\ attention_mask # ones_like(input_ids)
  /\ position_ids # None /\ position_ids # cumsum_minus_one(attention_mask)
  /\ g_pc = "done"
  /\ Len(yielded) = 2

(***************************************************************************)
(* Further claims: stored pairs, counters, progress of the cache callers.  *)
(***************************************************************************)
\* the lookup of generate (lines 598-602) for key k returns two plans
CompletePair(k) ==
  LET got == get_compiled_funcs(k, EngineId)
  IN  got # NoFuncs /\ got[1] # 0 /\ got[2] # 0

\* C34: for every key in _precompiled_configs, COMPILED_FUNCS holds an entry
\* for the key and the engine's id with both plans present; so after a call of
\* async_precompile or precompile has returned True, the lookup for its key
\* returns a complete pair.
C34_ReadyHasPair ==
  /\ \A k \in precompiled : CompletePair(k)
  /\ \A t \in Tasks : pc[t] = "returned" => CompletePair(key[t])

\* both shapes are READY, after calls through both entry points have returned
C34_Witness ==
  /\ precompiled = CacheKeys
  /\ \E t, u \in Tasks :
       /\ kind[t] = "async" /\ pc[t] = "returned"
       /\ kind[u] = "sync" /\ pc[u] = "returned" /\ key[u] # key[t]

C35_Inv ==
  g_pc # "new" => state.current_length = PromptLength + state.generated_tokens

C35_Step ==
  LET dl == state'.current_length - StepPre.current_length
      dg == state'.generated_tokens - StepPre.generated_tokens
  IN  /\ dl = dg
      /\ dl \in {0, 1}
      /\ (state'.sequences # StepPre.sequences) => dl = 1

\* C35: in every state of the prime plan and of the interval plan,
\* current_length = prompt_length + generated_tokens, and every decode step
\* adds exactly one to both.
C35_LengthCountCoupling == []C35_Inv /\ [][C35_Step]_vars

\* the prime step and a full chunk of interval steps have been taken
C35_Witness ==
  /\ g_pc = "primed"
  /\ PromptLength > 1
  /\ state.generated_tokens = StepMaxNew + 1

\* C36: while only async_precompile is used and no build fails, every call
\* that is under way eventually returns True, and a call of async_precompile
\* that has returned has its key in _precompiled_configs.
C36_EnsureLiveness ==
  /\ [](\A t \in Tasks :
          (kind[t] = "async" /\ pc[t] = "returned") => key[t] \in precompiled)
  /\ \A t \in Tasks :
       Active(t) ~> (pc[t] = "returned" \/ ~AsyncOnly \/ ~NoFailure)

\* three async callers of two shapes have all returned, no build has failed
C36_Witness ==
  /\ AsyncOnly /\ NoFailure
  /\ \A t \in Tasks : pc[t] = "returned"
  /\ \E t, u \in Tasks : key[t] # key[u]

\* C37: with async callers only, a call for a key whose own build does not
\* fail eventually returns True, also after the build of a different key has
\* failed.
C37_FailureDoesNotBlockOthers ==
  \A t \in Tasks :
    (Active(t) /\ \E k \in CacheKeys \ {key[t]} : FailedKey(k))
      ~> (pc[t] = "returned" \/ FailedKey(key[t]) \/ ~AsyncOnly)

C38_Inv ==
  /\ req_success + req_error <= 1
  /\ req_success = 1 => (g_pc = "done" /\ g_error = "none")
  /\ req_error = 1 => (g_pc = "raised" /\ g_error # "none")
  /\ g_pc = "done" => req_success = 1
  /\ g_pc = "raised" => req_error = 1
  /\ g_pc = "closed" => (req_success = 0 /\ req_error = 0)

C38_Step ==
  /\ req_success' >= req_success
  /\ req_error' >= req_error

\* C38: a generate call increments at most one of the request counters
\* status=success and status=error, at most once and never back: success
\* exactly when the stream ran to its end without error, error exactly when
\* an exception was raised, neither when the consumer closed the stream at a
\* yield.
C38_ExclusiveOutcome == []C38_Inv /\ [][C38_Step]_vars

\* the consumer closed the stream after its second snapshot: neither counter
\* was incremented
C38_Witness ==
  /\ g_pc = "closed"
  /\ Len(yielded) = 2
  /\ req_success = 0 /\ req_error = 0

=============================================================================
